---------------------------- MODULE Spec2Model ----------------------------
(***************************************************************************)
(* A model of the DTMF generator of src/src/effects/DtmfGen.cpp: the       *)
(* settings and their derived fields (Settings::Recalculate), the handlers *)
(* that change them, the segmentation set up by ProcessInitialize, the     *)
(* block loop of ProcessBlock and the tone synthesizer MakeDtmfTone.       *)
(*                                                                         *)
(* Numbers.  The C++ code computes times and levels in double precision.   *)
(* The model computes them as exact fractions [n |-> numerator,            *)
(* d |-> denominator], reduced, so floor() and comparisons are those of    *)
(* the real-number values.  Sample counts (sampleCount, size_t) are        *)
(* integers.  Sequence positions keep the 0-based values of the code.      *)
(***************************************************************************)
EXTENDS Integers, Sequences, FiniteSets, TLC

\* ------------------------------------------------------------------ bounds

\* Longest symbol sequence the handlers are given.
MaxSeqLen == 3
\* Longest duration, in milliseconds, the host hands to SetDuration.
MaxDuration == 7
\* Largest block size the host requests from ProcessBlock.
MaxBlock == 2
\* How many samples past numSamplesSequence the host may go on requesting.
MaxOverrun == 2

\* --------------------------------------------------------------- fractions

Min(a, b) == IF a <= b THEN a ELSE b

Abs(a) == IF a < 0 THEN -a ELSE a

RECURSIVE GCD(_, _)
GCD(a, b) == IF b = 0 THEN a ELSE GCD(b, a % b)

\* The fraction n/d (d # 0) in lowest terms with a positive denominator.
Rat(n, d) ==
  LET g == GCD(Abs(n), Abs(d))
      s == IF d < 0 THEN -1 ELSE 1
  IN  [n |-> (s * n) \div g, d |-> (s * d) \div g]

RInt(k) == [n |-> k, d |-> 1]
RAdd(x, y) == Rat(x.n * y.d + y.n * x.d, x.d * y.d)
RSub(x, y) == Rat(x.n * y.d - y.n * x.d, x.d * y.d)
RMul(x, y) == Rat(x.n * y.n, x.d * y.d)
RDiv(x, y) == Rat(x.n * y.d, x.d * y.n)
RLess(x, y) == x.n * y.d < y.n * x.d
RLeq(x, y) == x.n * y.d <= y.n * x.d
RMin(x, y) == IF RLess(y, x) THEN y ELSE x
\* floor() of a fraction.
RFloor(x) == x.n \div x.d
\* A duration of ms milliseconds, in seconds.
Millis(ms) == Rat(ms, 1000)

\* -------------------------------------------------- parameters and symbols

\* Param(DutyCycle, ...): minimum, maximum and slider scale.
MIN_DutyCycle == RInt(0)
MAX_DutyCycle == RInt(100)
SCL_DutyCycle == RInt(10)
\* Param(Amplitude, ...): minimum and maximum.
MIN_Amplitude == Rat(1, 1000)
MAX_Amplitude == RInt(1)

\* Fade in/out lasts 1/kFadeInOut of a second.
kFadeInOut == 250

\* The allowed symbols, in the order of the table.
kSymbols ==
  << "0", "1", "2", "3", "4", "5", "6", "7", "8", "9", "*", "#",
     "A", "B", "C", "D",
     "a", "b", "c", "d", "e", "f", "g", "h", "i", "j", "k", "l", "m",
     "n", "o", "p", "q", "r", "s", "t", "u", "v", "w", "x", "y", "z" >>

Range(f) == {f[i] : i \in DOMAIN f}

\* A SetAutomationParameters that accepts every symbol.
ForeignSymbolNever(seq) == FALSE

\* Sequence.find_first_not_of(symbols) != npos
ForeignSymbol(seq) == \E i \in DOMAIN seq : seq[i] \notin Range(kSymbols)

\* ------------------------------------------------------------------ inputs

\* The text the sequence box can hold: the validator lets only symbols of
\* the table through.
TypedText == << "1", "2", "3", "a", "#", "D" >>
TypedSequences == {SubSeq(TypedText, 1, n) : n \in 0..MaxSeqLen}
\* Slider positions (duty cycle times SCL_DutyCycle).
SliderValues == {0, 500, 1000}
\* Duty cycles and amplitudes an automation command may carry, valid or not.
ValidDutyCycles == {Rat(v, 10) : v \in SliderValues}
ValidAmplitudes == {Rat(1, 1000), Rat(8, 10)}
\* The commands: every valid one, and those with one value, or all three,
\* out of range.
Commands ==
  (ValidDutyCycles \X ValidAmplitudes \X TypedSequences)
  \cup {<< Rat(-1, 10), Rat(8, 10), << "1" >> >>,
        << Rat(1001, 10), Rat(8, 10), << "1", "2" >> >>,
        << Rat(50, 1), Rat(0, 1), << "1" >> >>,
        << Rat(50, 1), Rat(1001, 1000), << >> >>,
        << Rat(50, 1), Rat(8, 10), << "1", "E" >> >>,
        << Rat(100, 1), Rat(1, 1000), << "!" >> >>,
        << Rat(1001, 10), Rat(0, 1), << "1", "E" >> >>}
\* What a writing visitor stores through VisitSettings.
VisitorWrites ==
  {<< Rat(100, 1), Rat(8, 10), << "1", "2" >> >>,
   << Rat(50, 1), Rat(1, 1000), << "1" >> >>,
   << Rat(0, 1), Rat(8, 10), << >> >>}
\* Durations (ms) of the duration control.
Durations == 0..MaxDuration
\* Selection start (ms) and sample rate (Hz) of the track generated into.
Tracks == {<< 0, 1000 >>, << 0, 500 >>, << 1, 500 >>}
\* Characters an out-of-range read of the sequence may return.
StrayChars == {"NUL", "5"}


\* ------------------------------------------------------------------- state

VARIABLES
  \* EffectDtmf::Settings
  dtmfSequence,       \* the symbols to generate
  dtmfDutyCycle,      \* percent, 0..100
  dtmfAmplitude,      \* 0.001..1
  dtmfNTones,         \* derived: number of tones
  dtmfTone,           \* derived: seconds per tone
  dtmfSilence,        \* derived: seconds per silence
  \* Effect (the host's part of the effect object)
  mDuration,          \* GetDuration() / SetDuration(), seconds
  mT0,                \* start of the selection, seconds
  mSampleRate,        \* Hz
  \* EffectDtmf: the segmentation cursor
  numSamplesSequence, numSamplesTone, numSamplesSilence, diff,
  curSeqPos, isTone, numRemaining, curTonePos,
  \* where the run stands: "idle", "running", "failed" (ProcessInitialize
  \* returned false), "crashed" (division by zero), "hung" (ProcessBlock
  \* never returns)
  pc,
  \* history of the run: one record per segment started, in stream order
  segs,
  \* history of the run: the samples written, in stream order, as runs
  stream,
  \* one record per pass of the loop in the last call of ProcessBlock
  chunks,
  \* samples ProcessBlock has returned so far
  emitted,
  \* assertions and reads of the run that went wrong
  trap,
  \* the last handler that ran, what it was given and what it returned
  lastOp,
  \* the synthesizer bench: inputs, position and the buffers written
  bench,
  \* EffectLoudness: tracks, staging buffer, position in the two passes
  loud,
  \* the redistribution loop of ProcessInitialize, one pass at a time
  calc

settingsVars == << dtmfSequence, dtmfDutyCycle, dtmfAmplitude,
                   dtmfNTones, dtmfTone, dtmfSilence, mDuration >>
hostVars == << mT0, mSampleRate >>
cursorVars == << numSamplesSequence, numSamplesTone, numSamplesSilence, diff,
                 curSeqPos, isTone, numRemaining, curTonePos >>
runVars == << pc, segs, stream, chunks, emitted, trap >>
vars == << settingsVars, hostVars, cursorVars, runVars, lastOp, bench, loud, calc >>

\* -------------------------------------------------- Settings::Recalculate

\* A Recalculate that gives every tone an equal share of the duration.
SlotDurationEven(duration, nTones, dutyCycle) == RDiv(duration, RInt(nTones))

\* double slot = duration / ((double)dtmfNTones + (dtmfDutyCycle / 100.0) - 1)
SlotDuration(duration, nTones, dutyCycle) ==
  RDiv(duration,
       RSub(RAdd(RInt(nTones), RDiv(dutyCycle, RInt(100))), RInt(1)))

\* dtmfTone = slot * (dtmfDutyCycle / 100.0)
ToneShare(slot, dutyCycle) == RMul(slot, RDiv(dutyCycle, RInt(100)))

\* dtmfSilence = slot * (1.0 - (dtmfDutyCycle / 100.0))
SilenceShare(slot, dutyCycle) ==
  RMul(slot, RSub(RInt(1), RDiv(dutyCycle, RInt(100))))

\* A Recalculate that gives the single tone no length.
SingleToneAbsent(duration) == [tone |-> RInt(0), silence |-> RInt(0)]

\* A Recalculate that keeps a silence after a lone tone.
SingleToneWithGap(duration) == [tone |-> duration, silence |-> duration]

\* The single tone of a one-symbol sequence: as long as the sequence.
SingleTone(duration) == [tone |-> duration, silence |-> RInt(0)]

\* A Recalculate that keeps the duration of an empty sequence.
NoTonesKeepDuration(duration) ==
  [nTones |-> 0, tone |-> RInt(0), silence |-> RInt(0), duration |-> duration]

\* No tones: effect.SetDuration(0.0); dtmfTone = 0; dtmfSilence = 0
NoTones(duration) ==
  [nTones |-> 0, tone |-> RInt(0), silence |-> RInt(0), duration |-> RInt(0)]

\* What Recalculate leaves in dtmfNTones, dtmfTone, dtmfSilence and the
\* effect's duration, given the sequence, the duty cycle and the duration.
Recalculate(sequence, dutyCycle, duration) ==
  LET n == Len(sequence) IN
  IF n = 0
    THEN NoTones(duration)
    ELSE IF n = 1
      THEN [nTones |-> 1, tone |-> SingleTone(duration).tone,
            silence |-> SingleTone(duration).silence, duration |-> duration]
      ELSE LET slot == SlotDuration(duration, n, dutyCycle) IN
           [nTones |-> n, tone |-> ToneShare(slot, dutyCycle),
            silence |-> SilenceShare(slot, dutyCycle), duration |-> duration]

\* The assignments of a handler that stores sequence, dutyCycle, amplitude
\* and duration and then calls Recalculate.
StoreAndRecalculate(sequence, dutyCycle, amplitude, duration) ==
  LET r == Recalculate(sequence, dutyCycle, duration) IN
  /\ dtmfSequence' = sequence
  /\ dtmfDutyCycle' = dutyCycle
  /\ dtmfAmplitude' = amplitude
  /\ dtmfNTones' = r.nTones
  /\ dtmfTone' = r.tone
  /\ dtmfSilence' = r.silence
  /\ mDuration' = r.duration

Handler(name, ok) == [op |-> name, ok |-> ok]

\* ---------------------------------------------------------------- handlers

\* Handlers of the dialog and of automation run before the run starts.
Idle == pc = "idle"

OnSequence(text) ==
  /\ Idle
  /\ StoreAndRecalculate(text, dtmfDutyCycle, dtmfAmplitude, mDuration)
  /\ lastOp' = Handler("OnSequence", TRUE)
  /\ UNCHANGED << hostVars, cursorVars, runVars, bench, loud, calc >>

OnDuration(ms) ==
  /\ Idle
  /\ StoreAndRecalculate(dtmfSequence, dtmfDutyCycle, dtmfAmplitude, Millis(ms))
  /\ lastOp' = Handler("OnDuration", TRUE)
  /\ UNCHANGED << hostVars, cursorVars, runVars, bench, loud, calc >>

OnDutyCycle(slider) ==
  /\ Idle
  /\ StoreAndRecalculate(dtmfSequence, RDiv(RInt(slider), SCL_DutyCycle),
                         dtmfAmplitude, mDuration)
  /\ lastOp' = Handler("OnDutyCycle", TRUE)
  /\ UNCHANGED << hostVars, cursorVars, runVars, bench, loud, calc >>

ValidateUI(slider, ms) ==
  /\ Idle
  /\ StoreAndRecalculate(dtmfSequence, RDiv(RInt(slider), SCL_DutyCycle),
                         dtmfAmplitude, Millis(ms))
  /\ lastOp' = Handler("ValidateUI", TRUE)
  /\ UNCHANGED << hostVars, cursorVars, runVars, bench, loud, calc >>

\* ReadAndVerifyDouble: the value read lies within [min, max].
ReadAndVerifyDouble(value, min, max) == RLeq(min, value) /\ RLeq(value, max)

\* Whether SetAutomationParameters goes on to store what it read.
ParametersAccepted(dutyCycle, amplitude, sequence) ==
  /\ ReadAndVerifyDouble(dutyCycle, MIN_DutyCycle, MAX_DutyCycle)
  /\ ReadAndVerifyDouble(amplitude, MIN_Amplitude, MAX_Amplitude)
  /\ ~ForeignSymbol(sequence)

SetAutomationParameters(dutyCycle, amplitude, sequence) ==
  /\ Idle
  /\ IF ParametersAccepted(dutyCycle, amplitude, sequence)
       THEN StoreAndRecalculate(sequence, dutyCycle, amplitude, mDuration)
       ELSE UNCHANGED settingsVars
  /\ lastOp' = Handler("SetAutomationParameters", ParametersAccepted(dutyCycle, amplitude, sequence))
  /\ UNCHANGED << hostVars, cursorVars, runVars, bench, loud, calc >>

\* VisitSettings hands the three stored settings to the visitor by
\* reference and returns; a visitor that writes them leaves the derived
\* fields as they were.
VisitSettings(dutyCycle, amplitude, sequence) ==
  /\ Idle
  /\ dtmfSequence' = sequence
  /\ dtmfDutyCycle' = dutyCycle
  /\ dtmfAmplitude' = amplitude
  /\ lastOp' = Handler("VisitSettings", TRUE)
  /\ UNCHANGED << dtmfNTones, dtmfTone, dtmfSilence, mDuration,
                  hostVars, cursorVars, runVars, bench, loud, calc >>


\* ------------------------------------------------------- ProcessInitialize

\* if (dtmfSettings.dtmfNTones <= 0): bail, there is no sequence.
NoSequence(nTones) == nTones <= 0

\* (sampleCount)floor(t * mSampleRate + 0.5)
NearestSample(t, rate) == RFloor(RAdd(RMul(t, RInt(rate)), Rat(1, 2)))

\* numSamplesSequence = nT1 - nT0
SequenceSamples(t0, duration, rate) ==
  NearestSample(RAdd(t0, duration), rate) - NearestSample(t0, rate)

\* A ProcessInitialize that rounds the nominal lengths up.
OverEstimate(seconds, rate) == RFloor(RMul(seconds, RInt(rate))) + 1

\* sampleCount(floor(seconds * mSampleRate)): an under-estimate if anything.
UnderEstimate(seconds, rate) == RFloor(RMul(seconds, RInt(rate)))

\* A ProcessInitialize that drops what the nominal lengths leave over.
DifferenceNone(total, nTones, tone, silence) == 0

\* diff = numSamplesSequence - nTones * numSamplesTone
\*        - (nTones - 1) * numSamplesSilence
Difference(total, nTones, tone, silence) ==
  total - (nTones * tone) - (nTones - 1) * silence

\* A loop that goes on while any sample is left over.
MoreThanNone(d, nTones) == d > 0

\* while (diff > 2 * dtmfNTones - 1): more than one per thing to generate.
MoreThanOnePerSlot(d, nTones) == d > 2 * nTones - 1

\* numSamplesTone += (diff / (dtmfNTones))
ToneIncrement(d, nTones) == d \div nTones

\* numSamplesSilence += (diff / (dtmfNTones - 1))
SilenceIncrement(d, nTones) == d \div (nTones - 1)

\* The loop `while (diff > 2 * dtmfNTones - 1)`: the values it leaves, how
\* many times its body ran, and whether its body ran with one tone (the
\* assertion dtmfNTones > 1 fails, then diff / (dtmfNTones - 1) divides by
\* zero).
RECURSIVE Redistribute(_, _, _, _, _, _)
Redistribute(nTones, total, tone, silence, d, passes) ==
  IF MoreThanOnePerSlot(d, nTones)
    THEN IF nTones = 1
      THEN [tone |-> tone + ToneIncrement(d, nTones), silence |-> silence,
            diff |-> d, passes |-> passes + 1, divByZero |-> TRUE]
      ELSE LET t1 == tone + ToneIncrement(d, nTones)
               s1 == silence + SilenceIncrement(d, nTones)
           IN  Redistribute(nTones, total, t1, s1,
                            Difference(total, nTones, t1, s1), passes + 1)
    ELSE [tone |-> tone, silence |-> silence, diff |-> d,
          passes |-> passes, divByZero |-> FALSE]

\* What ProcessInitialize computes before it resets the cursor.
Segmentation ==
  LET total == SequenceSamples(mT0, mDuration, mSampleRate)
      tone == UnderEstimate(dtmfTone, mSampleRate)
      silence == UnderEstimate(dtmfSilence, mSampleRate)
  IN  [total |-> total,
       loop |-> Redistribute(dtmfNTones, total, tone, silence,
                   Difference(total, dtmfNTones, tone, silence), 0)]

ProcessInitialize ==
  /\ Idle
  /\ lastOp' = Handler("ProcessInitialize", ~NoSequence(dtmfNTones))
  /\ IF NoSequence(dtmfNTones)
       THEN /\ pc' = "failed"
            /\ UNCHANGED << cursorVars, segs, stream, chunks, emitted, trap >>
       ELSE LET seg == Segmentation IN
            /\ numSamplesSequence' = seg.total
            /\ numSamplesTone' = seg.loop.tone
            /\ numSamplesSilence' = seg.loop.silence
            /\ diff' = seg.loop.diff
            /\ IF seg.loop.divByZero
                 THEN /\ pc' = "crashed"
                      /\ trap' = {"dtmfNTones > 1"}
                      /\ UNCHANGED << curSeqPos, isTone, numRemaining >>
                 ELSE /\ pc' = "running"
                      /\ trap' = IF seg.loop.diff >= 0 THEN {} ELSE {"diff >= 0"}
                      /\ curSeqPos' = -1
                      /\ isTone' = FALSE
                      /\ numRemaining' = 0
            /\ UNCHANGED << curTonePos, segs, stream, chunks, emitted >>
  /\ UNCHANGED << settingsVars, hostVars, bench, loud, calc >>

\* ------------------------------------------------------------ MakeDtmfTone

\* A MakeDtmfTone whose first switch has one case only.
LowFreqOneRow(tone) == 697

\* The low tone of a symbol (first switch); 0 for any other character.
LowFreq(tone) ==
  IF tone \in {"1", "2", "3", "A", "a", "b", "c", "d", "e", "f"} THEN 697
  ELSE IF tone \in {"4", "5", "6", "B", "g", "h", "i", "j", "k", "l",
                    "m", "n", "o"} THEN 770
  ELSE IF tone \in {"7", "8", "9", "C", "p", "q", "r", "s", "t", "u", "v",
                    "w", "x", "y", "z"} THEN 852
  ELSE IF tone \in {"*", "0", "#", "D"} THEN 941
  ELSE 0

\* The high tone of a symbol (second switch); 0 for any other character.
HighFreq(tone) ==
  IF tone \in {"1", "4", "7", "*", "g", "h", "i", "p", "q", "r", "s"} THEN 1209
  ELSE IF tone \in {"2", "5", "8", "0", "a", "b", "c", "j", "k", "l",
                    "t", "u", "v"} THEN 1336
  ELSE IF tone \in {"3", "6", "9", "#", "d", "e", "f", "m", "n", "o",
                    "w", "x", "y", "z"} THEN 1477
  ELSE IF tone \in {"A", "B", "C", "D"} THEN 1633
  ELSE 0

\* A MakeDtmfTone that restarts the phase at every call.
PhaseRestart(i, last) == i

\* The argument of the two sines of sample i of a call: (i + last).
Phase(i, last) == i + last

\* A fade as wide as 1/250th of a second, however short the buffer.
FadeWidthWhole(len, fs) == RDiv(RInt(fs), RInt(kFadeInOut))

\* A = wxMin(len, fs / kFadeInOut): the width of a fade, in samples.
FadeWidth(len, fs) == RMin(RInt(len), RDiv(RInt(fs), RInt(kFadeInOut)))

\* size_t offset = len - A
FadeOffset(len, fs) == RFloor(RSub(RInt(len), FadeWidth(len, fs)))

\* if (last == 0): fade in.
FadeInDue(last) == last = 0

\* A MakeDtmfTone that fades every call out.
FadeOutAlways(last, total, len) == TRUE

\* if (last >= total - len): fade out.
FadeOutDue(last, total, len) == last >= total - len

\* The multiplier the fade-in loop applies to buffer[i]: i / A for i < A.
FadeInGain(i, len, fs, last) ==
  IF FadeInDue(last) /\ RLess(RInt(i), FadeWidth(len, fs))
    THEN RDiv(RInt(i), FadeWidth(len, fs))
    ELSE RInt(1)

\* The multiplier the fade-out loop applies to buffer[i]: 1 - j / A for
\* i = j + offset, j < A.
FadeOutGain(i, len, fs, last, total) ==
  IF /\ FadeOutDue(last, total, len)
     /\ i >= FadeOffset(len, fs)
     /\ RLess(RInt(i - FadeOffset(len, fs)), FadeWidth(len, fs))
    THEN RSub(RInt(1), RDiv(RInt(i - FadeOffset(len, fs)), FadeWidth(len, fs)))
    ELSE RInt(1)

\* The values of i for which `for (size_t i = 0; i < A; i++)` runs its body.
FadeLoop(len, fs) ==
  {i \in 0..RFloor(FadeWidth(len, fs)) : RLess(RInt(i), FadeWidth(len, fs))}

\* The indices of buffer the fade-in loop writes: buffer[i].
FadeInTouched(len, fs, last) ==
  IF FadeInDue(last) THEN FadeLoop(len, fs) ELSE {}

\* The indices of buffer the fade-out loop writes: buffer[i + offset].
FadeOutTouched(len, fs, last, total) ==
  IF FadeOutDue(last, total, len)
    THEN {i + FadeOffset(len, fs) : i \in FadeLoop(len, fs)}
    ELSE {}

\* The buffer MakeDtmfTone fills: sample i is amplitude * 0.5 *
\* (sin(2 pi f1 n / fs) + sin(2 pi f2 n / fs)) times gain, with n its
\* phase; the record keeps what the value is made from.
MakeDtmfTone(len, fs, tone, last, total, amplitude) ==
  [j \in 1..len |->
     [f1 |-> LowFreq(tone), f2 |-> HighFreq(tone), fs |-> fs,
      amplitude |-> amplitude,
      n |-> Phase(j - 1, last),
      gain |-> RMul(FadeInGain(j - 1, len, fs, last),
                    FadeOutGain(j - 1, len, fs, last, total))]]

\* ------------------------------------------------------------ ProcessBlock

\* A ProcessBlock that keeps the last spare sample back.
ExtraSampleButLast(d) == IF d > 1 THEN 1 ELSE 0

\* A ProcessBlock that never hands out a residual sample.
ExtraSampleNever(d) == 0

\* numRemaining += (diff-- > 0 ? 1 : 0): one sample out of the diff bin.
ExtraSample(d) == IF d > 0 THEN 1 ELSE 0

\* A ProcessBlock that does not advance curSeqPos at a new tone.
NextSeqPosStuck(pos) == pos

\* curSeqPos++ at the start of a tone.
NextSeqPos(pos) == pos + 1

\* dtmfSettings.dtmfSequence[curSeqPos]; a read outside the sequence has no
\* defined value.
SymbolAt(pos, stray) ==
  IF pos \in 0..(Len(dtmfSequence) - 1) THEN dtmfSequence[pos + 1] ELSE stray

\* The body of `if (numRemaining == 0)`: the next segment starts.
StartSegment(c) ==
  LET tone == ~c.isTone IN
  [c EXCEPT !.isTone = tone,
            !.curSeqPos = IF tone THEN NextSeqPos(c.curSeqPos) ELSE c.curSeqPos,
            !.curTonePos = IF tone THEN 0 ELSE c.curTonePos,
            !.numRemaining = (IF tone THEN numSamplesTone ELSE numSamplesSilence)
                             + ExtraSample(c.diff),
            !.diff = c.diff - 1]

\* No pass of the loop can produce a sample any more: every segment to
\* come is empty, so `while (size)` never ends.
Stalled(c) ==
  /\ c.numRemaining = 0
  /\ numSamplesTone = 0
  /\ numSamplesSilence = 0
  /\ c.diff <= 0

\* One pass of the loop of ProcessBlock with `size` samples still to fill:
\* the call of MakeDtmfTone or memset it makes, as a record.
Chunk(c, c1, size, stray) ==
  LET len == Min(size, c1.numRemaining) IN
  [isTone |-> c1.isTone,
   start |-> c.numRemaining = 0,
   len |-> len,
   pos |-> c1.curSeqPos,
   tone |-> IF c1.isTone THEN SymbolAt(c1.curSeqPos, stray) ELSE "-",
   last |-> IF c1.isTone THEN c1.curTonePos ELSE 0,
   total |-> IF c1.isTone THEN numSamplesTone ELSE 0,
   fadeIn |-> c1.isTone /\ FadeInDue(c1.curTonePos),
   fadeOut |-> c1.isTone /\ FadeOutDue(c1.curTonePos, numSamplesTone, len)]

\* The segment a pass starts, as the history keeps it.
Segment(c, c1, ch) ==
  [isTone |-> ch.isTone, pos |-> ch.pos, tone |-> ch.tone,
   nominal |-> IF ch.isTone THEN numSamplesTone ELSE numSamplesSilence,
   extra |-> ExtraSample(c.diff),
   segLen |-> c1.numRemaining,
   done |-> 0, fadeIns |-> 0, fadeOuts |-> 0, earlyOuts |-> 0]

\* The history of the segments after a pass that wrote chunk ch.
Segments(c, c1, ch) ==
  LET open == IF ch.start THEN Append(c.segs, Segment(c, c1, ch)) ELSE c.segs
      k == Len(open)
      seg == open[k]
  IN  [open EXCEPT ![k] =
         [seg EXCEPT !.done = seg.done + ch.len,
                     !.fadeIns = seg.fadeIns + (IF ch.fadeIn THEN 1 ELSE 0),
                     !.fadeOuts = seg.fadeOuts + (IF ch.fadeOut THEN 1 ELSE 0),
                     !.earlyOuts = seg.earlyOuts +
                        (IF ch.fadeOut /\ seg.done + ch.len < seg.segLen
                           THEN 1 ELSE 0)]]

\* The samples written so far, as runs: each run is a stretch of samples
\* of one segment and one symbol with consecutive phases (i + last), kept
\* as its first phase and its length.  A chunk that continues the last run
\* lengthens it; any other chunk that writes a sample starts a run.
Written(runs, ch) ==
  LET k == Len(runs)
      ph == ch.last
  IN  IF ch.len = 0 THEN runs
      ELSE IF /\ k > 0
              /\ runs[k].isTone = ch.isTone
              /\ runs[k].pos = ch.pos
              /\ runs[k].tone = ch.tone
              /\ ch.isTone => runs[k].phase + runs[k].len = ph
        THEN [runs EXCEPT ![k].len = runs[k].len + ch.len]
        ELSE Append(runs, [isTone |-> ch.isTone, pos |-> ch.pos,
                           tone |-> ch.tone, phase |-> ph, len |-> ch.len])

\* A ProcessBlock that forgets where the previous call left the tone.
AdvanceTonePosAnew(pos, len) == len

\* curTonePos += len
AdvanceTonePos(pos, len) == pos + len

\* One pass of the loop: a segment starts if none is open, one chunk is
\* written, and the cursor moves on by its length.
OnePass(c, size, stray) ==
  LET c1 == IF c.numRemaining = 0 THEN StartSegment(c) ELSE c
      ch == Chunk(c, c1, size, stray)
  IN  [c1 EXCEPT !.curTonePos = IF c1.isTone
                                  THEN AdvanceTonePos(c1.curTonePos, ch.len)
                                  ELSE c1.curTonePos,
                 !.numRemaining = c1.numRemaining - ch.len,
                 !.processed = c1.processed + ch.len,
                 !.segs = Segments(c, c1, ch),
                 !.stream = Written(c1.stream, ch),
                 !.chunks = Append(c1.chunks, ch),
                 !.stray = c1.stray
                   \/ (c1.isTone
                       /\ c1.curSeqPos \notin 0..(Len(dtmfSequence) - 1))]

\* while (size) { ... }
RECURSIVE BlockLoop(_, _, _)
BlockLoop(c, size, stray) ==
  IF size = 0 THEN c
  ELSE IF Stalled(c) THEN [c EXCEPT !.hung = TRUE]
  ELSE LET c2 == OnePass(c, size, stray)
       IN  BlockLoop(c2, size - (c2.processed - c.processed), stray)

\* The members a call of ProcessBlock starts from, with processed = 0.
Cursor ==
  [isTone |-> isTone, curSeqPos |-> curSeqPos, curTonePos |-> curTonePos,
   numRemaining |-> numRemaining, diff |-> diff, processed |-> 0,
   segs |-> segs, stream |-> stream, chunks |-> << >>,
   stray |-> FALSE, hung |-> FALSE]

ProcessBlock(size, stray) ==
  /\ pc = "running"
  /\ emitted + size <= numSamplesSequence + MaxOverrun
  /\ LET c == BlockLoop(Cursor, size, stray)
     IN  /\ isTone' = c.isTone
         /\ curSeqPos' = c.curSeqPos
         /\ curTonePos' = c.curTonePos
         /\ numRemaining' = c.numRemaining
         /\ diff' = c.diff
         /\ segs' = c.segs
         /\ stream' = c.stream
         /\ chunks' = c.chunks
         /\ emitted' = emitted + c.processed
         /\ pc' = IF c.hung THEN "hung" ELSE "running"
         /\ trap' = IF c.stray THEN trap \cup {"dtmfSequence[curSeqPos]"}
                               ELSE trap
         /\ lastOp' = Handler("ProcessBlock", ~c.hung)
  /\ UNCHANGED << settingsVars, hostVars, numSamplesSequence, numSamplesTone,
                  numSamplesSilence, bench, loud, calc >>

\* -------------------------------------------------------------------- runs

\* The effect as constructed and shown: the settings hold a sequence, a
\* duty cycle and an amplitude, the derived fields are those of
\* Recalculate, the host has set the selection start, the rate and the
\* duration, and no run has started.
Constructed(sequence, dutyCycle, duration, t0, rate) ==
  LET r == Recalculate(sequence, dutyCycle, duration) IN
  /\ dtmfSequence = sequence
  /\ dtmfDutyCycle = dutyCycle
  /\ dtmfAmplitude = Rat(8, 10)
  /\ dtmfNTones = r.nTones
  /\ dtmfTone = r.tone
  /\ dtmfSilence = r.silence
  /\ mDuration = r.duration
  /\ mT0 = t0
  /\ mSampleRate = rate
  /\ numSamplesSequence = 0
  /\ numSamplesTone = 0
  /\ numSamplesSilence = 0
  /\ diff = 0
  /\ curSeqPos = 0
  /\ isTone = FALSE
  /\ numRemaining = 0
  /\ curTonePos = 0
  /\ pc = "idle"
  /\ segs = << >>
  /\ stream = << >>
  /\ chunks = << >>
  /\ emitted = 0
  /\ trap = {}
  /\ lastOp = Handler("EffectDtmf", TRUE)

\* The redistribution loop is not run on its own.
CalcOff == [pc |-> "off"]

\* The loudness effect is not running.
LoudOff == [pc |-> "off"]

\* The synthesizer bench is not in use.
BenchOff == [pc |-> "off"]

Init ==
  /\ \E sequence \in TypedSequences, slider \in SliderValues,
        ms \in Durations, track \in Tracks :
       Constructed(sequence, RDiv(RInt(slider), SCL_DutyCycle), Millis(ms),
                   Millis(track[1]), track[2])
  /\ bench = BenchOff
  /\ loud = LoudOff
  /\ calc = CalcOff

Next ==
  \/ \E text \in TypedSequences : OnSequence(text)
  \/ \E ms \in Durations : OnDuration(ms)
  \/ \E slider \in SliderValues : OnDutyCycle(slider)
  \/ \E slider \in SliderValues, ms \in Durations : ValidateUI(slider, ms)
  \/ \E cmd \in Commands : SetAutomationParameters(cmd[1], cmd[2], cmd[3])
  \/ \E w \in VisitorWrites : VisitSettings(w[1], w[2], w[3])
  \/ ProcessInitialize
  \/ \E size \in 1..MaxBlock, stray \in StrayChars : ProcessBlock(size, stray)

Spec == Init /\ [][Next]_vars


\* ------------------------------------------------- the scenario of the spec

\* Sequence "123", duty cycle 50, duration 3.0 s, 8000 Hz, selection at 0.
InitScenario ==
  /\ Constructed(<< "1", "2", "3" >>, RInt(50), RInt(3), RInt(0), 8000)
  /\ bench = BenchOff
  /\ loud = LoudOff
  /\ calc = CalcOff

\* Block sizes the host streams the scenario with.
ScenarioBlocks == {640, 1000, 4096}

NextScenario ==
  \/ ProcessInitialize
  \/ \E size \in ScenarioBlocks, stray \in StrayChars : ProcessBlock(size, stray)

SpecScenario == InitScenario /\ [][NextScenario]_vars

\* ---------------------------------------------------- the synthesizer bench

\* Longest buffer and longest tone the bench synthesizes.
MaxToneLen == 6

\* MakeDtmfTone called for one symbol in two pieces, (last = 0, len = k) and
\* (last = k, len = m), and in one piece (last = 0, len = k + m).
BenchRates == {200, 500, 1000, 1100}
\* The symbols: every allowed one, and three characters that are not.
BenchTones == Range(kSymbols) \cup {"?", "E", " "}

BenchInit ==
  /\ Constructed(<< "1" >>, RInt(50), RInt(0), RInt(0), 1000)
  /\ loud = LoudOff
  /\ calc = CalcOff
  /\ \E fs \in BenchRates, tone \in BenchTones,
        total \in 0..MaxToneLen, k \in 0..MaxToneLen, m \in 0..MaxToneLen :
       bench = [pc |-> "ready", fs |-> fs, tone |-> tone,
                amplitude |-> Rat(8, 10), total |-> total, k |-> k, m |-> m,
                split |-> << >>, single |-> << >>]

BenchFirst ==
  /\ bench.pc = "ready"
  /\ bench' = [bench EXCEPT
       !.pc = "first",
       !.split = MakeDtmfTone(bench.k, bench.fs, bench.tone, 0, bench.total,
                              bench.amplitude)]
  /\ UNCHANGED << settingsVars, hostVars, cursorVars, runVars, lastOp, loud, calc >>

BenchSecond ==
  /\ bench.pc = "first"
  /\ bench' = [bench EXCEPT
       !.pc = "second",
       !.split = bench.split \o
                 MakeDtmfTone(bench.m, bench.fs, bench.tone, bench.k,
                              bench.total, bench.amplitude)]
  /\ UNCHANGED << settingsVars, hostVars, cursorVars, runVars, lastOp, loud, calc >>

BenchSingle ==
  /\ bench.pc = "second"
  /\ bench' = [bench EXCEPT
       !.pc = "done",
       !.single = MakeDtmfTone(bench.k + bench.m, bench.fs, bench.tone, 0,
                               bench.total, bench.amplitude)]
  /\ UNCHANGED << settingsVars, hostVars, cursorVars, runVars, lastOp, loud, calc >>

BenchNext == BenchFirst \/ BenchSecond \/ BenchSingle

SpecTone == BenchInit /\ [][BenchNext]_vars


\* ------------------------------------------- the two-pass loudness engine

\* Most tracks of a run, longest track in samples, largest staging buffer.
MaxTracks == 2
MaxTrackLen == 3
MaxCapacity == 2

\* A sample of track storage: its amplitude and how often a gain has been
\* applied to it.
TrackSample(amp) == [amp |-> amp, gained |-> 0]

\* The selections of a run: one track or more, each silent (amplitude 0)
\* or carrying a signal (amplitude 1), of 0 to MaxTrackLen samples.
LoudTracks ==
  { [i \in 1..len |-> TrackSample(amp)] :
      len \in 0..MaxTrackLen, amp \in {0, 1} }
LoudSelections == UNION { [1..n -> LoudTracks] : n \in 1..MaxTracks }

\* The meter before the first block of a track.
MeterReset == [count |-> 0, energy |-> 0]

\* The meter after a block: RMS accumulates the squares of the samples.
RECURSIVE MeterFeed(_, _)
MeterFeed(meter, block) ==
  IF block = << >> THEN meter
  ELSE MeterFeed([count |-> meter.count + 1,
                  energy |-> meter.energy + block[1].amp * block[1].amp],
                 Tail(block))

\* An engine that finds a gain for every measurement.
MeasuredSilenceNever(meter) == FALSE

\* The measured level is silence (or no sample was measured): no gain.
MeasuredSilence(meter) == meter.energy = 0

\* An engine that keeps its buffers.
FreeBuffersKept(l) == l

\* Both staging buffers are released.
FreeBuffers(l) == [l EXCEPT !.allocated = FALSE, !.buffer = << >>]

\* The first pass of track t starts.
StartTrack(l, t) ==
  [l EXCEPT !.t = t, !.analyse = TRUE, !.pos = 0, !.len = 0,
            !.meter = MeterReset, !.mult = "none", !.pc = "pass"]

\* What the engine did to a block, for the record of the run.
LoudEvent(l, op) ==
  [op |-> op, t |-> l.t, analyse |-> l.analyse, pos |-> l.pos, len |-> l.len]

LoudInit ==
  /\ Constructed(<< "1" >>, RInt(50), RInt(0), RInt(0), 1000)
  /\ bench = BenchOff
  /\ calc = CalcOff
  /\ \E selection \in LoudSelections, capacity \in 1..MaxCapacity :
       loud = [pc |-> "start", tracks |-> selection, capacity |-> capacity,
               allocated |-> FALSE, buffer |-> << >>,
               t |-> 1, analyse |-> TRUE, pos |-> 0, len |-> 0,
               meter |-> MeterReset, mult |-> "none",
               skipped |-> {}, normalized |-> {},
               cancel |-> FALSE, log |-> << >>, result |-> "none"]

LoudUnchanged ==
  UNCHANGED << settingsVars, hostVars, cursorVars, runVars, lastOp, bench,
               calc >>

\* Process: the buffers are allocated and the first track starts.
AllocBuffers ==
  /\ loud.pc = "start"
  /\ loud' = StartTrack([loud EXCEPT !.allocated = TRUE], 1)
  /\ LoudUnchanged

\* ProcessOne, at the head of its loop over the blocks of the selection:
\* another block, or the end of the pass.
ProcessOne ==
  /\ loud.pc = "pass"
  /\ loud' =
       IF loud.pos < Len(loud.tracks[loud.t])
         THEN [loud EXCEPT !.pc = "load"]
         ELSE IF loud.analyse
           THEN [loud EXCEPT !.pc = "gain"]
           ELSE [loud EXCEPT !.normalized = @ \cup {loud.t}, !.pc = "next"]
  /\ LoudUnchanged

\* The length of the next block: what is left, at most the capacity.
BlockLen(l) == Min(l.capacity, Len(l.tracks[l.t]) - l.pos)

\* An engine that applies the gain in both passes.
AfterLoadProcess(analyse) == "process"

\* After a load: pass 1 analyses the block, pass 2 processes it.
AfterLoad(analyse) == IF analyse THEN "analyse" ELSE "process"

LoadBufferBlock ==
  /\ loud.pc = "load"
  /\ LET len == BlockLen(loud)
         l == [loud EXCEPT !.len = len] IN
     loud' = [l EXCEPT
       !.buffer = SubSeq(loud.tracks[loud.t], loud.pos + 1, loud.pos + len),
       !.log = Append(@, LoudEvent(l, "Load")),
       !.pc = AfterLoad(loud.analyse)]
  /\ LoudUnchanged

AnalyseBufferBlock ==
  /\ loud.pc = "analyse"
  /\ loud' = [loud EXCEPT
       !.meter = MeterFeed(@, loud.buffer),
       !.log = Append(@, LoudEvent(loud, "Analyse")),
       !.pc = "poll"]
  /\ LoudUnchanged

\* Every sample of the buffer is multiplied by the gain.
ProcessBufferBlock ==
  /\ loud.pc = "process"
  /\ loud' = [loud EXCEPT
       !.buffer = [i \in DOMAIN @ |-> [@[i] EXCEPT !.gained = @ + 1]],
       !.log = Append(@, LoudEvent(loud, "Process")),
       !.pc = "store"]
  /\ LoudUnchanged

\* The buffer is written back to the track at the position it was loaded
\* from.
StoreBufferBlock ==
  /\ loud.pc = "store"
  /\ loud' = [loud EXCEPT
       !.tracks[loud.t] =
          [i \in DOMAIN @ |->
             IF i > loud.pos /\ i <= loud.pos + loud.len
               THEN loud.buffer[i - loud.pos] ELSE @[i]],
       !.log = Append(@, LoudEvent(loud, "Store")),
       !.pc = "poll"]
  /\ LoudUnchanged

\* The cancel poll between blocks: cancelled, or on to the next block.
UpdateProgress ==
  /\ loud.pc = "poll"
  /\ loud' =
       IF loud.cancel
         THEN [FreeBuffers(loud) EXCEPT !.pc = "cancelled",
                                        !.result = "cancelled"]
         ELSE [loud EXCEPT !.pos = @ + loud.len, !.pc = "pass"]
  /\ LoudUnchanged

\* The gain from the measurement of pass 1: none for silence, and then the
\* track is skipped and reported as skipped.
ComputeGain ==
  /\ loud.pc = "gain"
  /\ loud' =
       IF MeasuredSilence(loud.meter)
         THEN [loud EXCEPT !.mult = "undefined",
                           !.skipped = @ \cup {loud.t}, !.pc = "next"]
         ELSE [loud EXCEPT !.mult = "defined", !.analyse = FALSE,
                           !.pos = 0, !.len = 0, !.pc = "pass"]
  /\ LoudUnchanged

\* The next track of the run, or its end.
NextTrack ==
  /\ loud.pc = "next"
  /\ loud' =
       IF loud.t < Len(loud.tracks)
         THEN StartTrack(loud, loud.t + 1)
         ELSE [FreeBuffers(loud) EXCEPT !.pc = "done", !.result = "ok"]
  /\ LoudUnchanged

\* The host asks for cancellation, at any moment of the run.
RequestCancel ==
  /\ loud.pc \notin {"off", "done", "cancelled"}
  /\ ~loud.cancel
  /\ loud' = [loud EXCEPT !.cancel = TRUE]
  /\ LoudUnchanged

LoudNext ==
  \/ AllocBuffers \/ ProcessOne \/ LoadBufferBlock \/ AnalyseBufferBlock
  \/ ProcessBufferBlock \/ StoreBufferBlock \/ UpdateProgress
  \/ ComputeGain \/ NextTrack \/ RequestCancel

SpecLoudness == LoudInit /\ [][LoudNext]_vars

\* ------------------------------------- the redistribution loop on its own

\* Most tones, and most samples of the total and of a nominal length.
MaxTones == 3
MaxTotal == 8

\* The loop is entered with any count of tones, any total and any nominal
\* lengths, consistent or not.
CalcInit ==
  /\ Constructed(<< "1" >>, RInt(50), RInt(0), RInt(0), 1000)
  /\ bench = BenchOff
  /\ loud = LoudOff
  /\ \E nTones \in 1..MaxTones, total \in 0..MaxTotal,
        tone \in 0..MaxTotal, silence \in 0..MaxTotal :
       calc = [pc |-> "loop", nTones |-> nTones, total |-> total,
               tone0 |-> tone, silence0 |-> silence,
               tone |-> tone, silence |-> silence,
               diff |-> Difference(total, nTones, tone, silence),
               passes |-> 0, trap |-> {}]

CalcUnchanged ==
  UNCHANGED << settingsVars, hostVars, cursorVars, runVars, lastOp, bench,
               loud >>

\* One pass of the loop body.  With one tone the assertion dtmfNTones > 1
\* fails and diff / (dtmfNTones - 1) divides by zero: the run traps, or
\* goes on with a quotient of 0.
LoopPass ==
  /\ calc.pc = "loop"
  /\ MoreThanOnePerSlot(calc.diff, calc.nTones)
  /\ IF calc.nTones = 1
       THEN \/ calc' = [calc EXCEPT !.pc = "crashed",
                                    !.passes = @ + 1,
                                    !.trap = @ \cup {"dtmfNTones > 1"}]
            \/ LET t1 == calc.tone + ToneIncrement(calc.diff, calc.nTones) IN
               calc' = [calc EXCEPT
                 !.tone = t1,
                 !.diff = Difference(calc.total, calc.nTones, t1,
                                     calc.silence),
                 !.passes = @ + 1,
                 !.trap = @ \cup {"dtmfNTones > 1"}]
       ELSE LET t1 == calc.tone + ToneIncrement(calc.diff, calc.nTones)
                s1 == calc.silence
                      + SilenceIncrement(calc.diff, calc.nTones)
            IN  calc' = [calc EXCEPT
                  !.tone = t1, !.silence = s1,
                  !.diff = Difference(calc.total, calc.nTones, t1, s1),
                  !.passes = @ + 1]
  /\ CalcUnchanged

\* The loop condition is false: wxASSERT(diff >= 0) follows.
LoopExit ==
  /\ calc.pc = "loop"
  /\ ~MoreThanOnePerSlot(calc.diff, calc.nTones)
  /\ calc' = [calc EXCEPT
       !.pc = "exit",
       !.trap = IF calc.diff >= 0 THEN @ ELSE @ \cup {"diff >= 0"}]
  /\ CalcUnchanged

CalcNext == LoopPass \/ LoopExit

SpecRedistribute == CalcInit /\ [][CalcNext]_vars

\* ------------------------------------------------------------------ claims

\* nTones, tone, silence and duration are what Recalculate leaves for the
\* sequence, the duty cycle and the duration given.
DerivedBy(sequence, dutyCycle, duration, nTones, tone, silence) ==
  LET r == Recalculate(sequence, dutyCycle, duration) IN
  /\ nTones = r.nTones
  /\ tone = r.tone
  /\ silence = r.silence
  /\ duration = r.duration

\* The derived fields are those Recalculate computes from the sequence, the
\* duty cycle and the duration now stored.
Recalculated ==
  DerivedBy(dtmfSequence, dtmfDutyCycle, mDuration,
            dtmfNTones, dtmfTone, dtmfSilence)

\* ProcessBlock has returned exactly numSamplesSequence samples.
FullRun == pc = "running" /\ emitted = numSamplesSequence

\* The run has not gone past the end of the sequence.
WithinRun == pc = "running" /\ emitted <= numSamplesSequence

RECURSIVE SumSegLen(_)
SumSegLen(ss) == IF ss = << >> THEN 0 ELSE ss[1].segLen + SumSegLen(Tail(ss))

ToneSegs == {j \in DOMAIN segs : segs[j].isTone}
SilenceSegs == {j \in DOMAIN segs : ~segs[j].isTone}

\* Every slot of the sequence that has not started is empty: its nominal
\* length is 0 and no residual sample is left for it.
RestIsEmpty ==
  \A j \in (Len(segs) + 1)..(2 * dtmfNTones - 1) :
    /\ (IF j % 2 = 1 THEN numSamplesTone ELSE numSamplesSilence) = 0
    /\ diff <= 0

\* floor(x * rate + 0.5) for the fraction x, written out.
RoundToSample(x, rate) == (2 * x.n * rate + x.d) \div (2 * x.d)

\* Handlers that end with a call of Recalculate.
Recalculating ==
  {"OnSequence", "OnDuration", "OnDutyCycle", "ValidateUI",
   "SetAutomationParameters"}

\* C1: exact-sum closure.  With the derived fields computed by Recalculate,
\* once ProcessBlock has returned numSamplesSequence samples every segment
\* it started is complete, each is its nominal length plus at most the one
\* residual sample it took from diff, no segment beyond the 2N - 1 slots of
\* the sequence was started, the slots not started are empty, and the
\* lengths sum exactly to numSamplesSequence =
\* floor((T0 + duration) * fs + 0.5) - floor(T0 * fs + 0.5).
C1_ExactSum ==
  (Recalculated /\ FullRun) =>
    /\ numSamplesSequence =
         RoundToSample(RAdd(mT0, mDuration), mSampleRate)
         - RoundToSample(mT0, mSampleRate)
    /\ SumSegLen(segs) = numSamplesSequence
    /\ \A j \in DOMAIN segs :
         /\ segs[j].done = segs[j].segLen
         /\ segs[j].segLen = segs[j].nominal + segs[j].extra
         /\ segs[j].extra \in {0, 1}
    /\ Len(segs) <= 2 * dtmfNTones - 1
    /\ RestIsEmpty

\* A full run of several tones in which some segments took a residual
\* sample and some did not.
C1_Witness ==
  /\ Recalculated /\ FullRun
  /\ dtmfNTones >= 2
  /\ Len(segs) = 2 * dtmfNTones - 1
  /\ \E j \in DOMAIN segs : segs[j].extra = 1
  /\ \E j \in DOMAIN segs : segs[j].extra = 0 /\ segs[j].segLen > 0

\* The segments started so far alternate tone, silence, tone, ..., the
\* k-th tone is made from symbol k of the sequence, and every tone was
\* synthesized with curSeqPos inside the sequence.
AlternatingFromTone ==
  /\ \A j \in DOMAIN segs :
       /\ segs[j].isTone = (j % 2 = 1)
       /\ segs[j].pos = (j - 1) \div 2
       /\ segs[j].pos \in 0..(Len(dtmfSequence) - 1)
       /\ segs[j].isTone => segs[j].tone = dtmfSequence[segs[j].pos + 1]
  /\ \A i \in DOMAIN chunks :
       chunks[i].isTone => chunks[i].pos \in 0..(Len(dtmfSequence) - 1)
  /\ "dtmfSequence[curSeqPos]" \notin trap

\* C2 as stated: for N > 1 a full run (here one of at least one sample)
\* produces exactly N tone segments and N - 1 silence segments, alternating
\* from a tone to a tone, the k-th tone made from symbol k with curSeqPos
\* in [0, N - 1].
C2_Original ==
  (Recalculated /\ FullRun /\ Len(dtmfSequence) > 1
   /\ numSamplesSequence > 0) =>
    /\ Len(segs) = 2 * Len(dtmfSequence) - 1
    /\ Cardinality(ToneSegs) = Len(dtmfSequence)
    /\ Cardinality(SilenceSegs) = Len(dtmfSequence) - 1
    /\ AlternatingFromTone

\* C2 as amended: for N > 1, with the derived fields computed by
\* Recalculate, the segments a run starts alternate tone, silence, tone,
\* ..., beginning with a tone, the k-th tone is made from symbol k with
\* curSeqPos in [0, N - 1], and there are at most N tones and N - 1
\* silences; a full run starts all N tones and N - 1 silences and ends
\* with a tone when the last tone is not empty (numSamplesTone > 0), and
\* otherwise stops before the empty slots at the end.
C2_Alternating ==
  (Recalculated /\ WithinRun /\ Len(dtmfSequence) > 1) =>
    /\ Len(segs) <= 2 * Len(dtmfSequence) - 1
    /\ AlternatingFromTone
    /\ FullRun => (Len(segs) = 2 * Len(dtmfSequence) - 1 \/ RestIsEmpty)
    /\ (FullRun /\ numSamplesTone > 0) =>
         /\ Cardinality(ToneSegs) = Len(dtmfSequence)
         /\ Cardinality(SilenceSegs) = Len(dtmfSequence) - 1
         /\ segs[Len(segs)].isTone

\* A full run of three tones and two silences, all of them with samples.
C2_Witness ==
  /\ Recalculated /\ FullRun
  /\ Len(dtmfSequence) = 3
  /\ Len(segs) = 5
  /\ \A j \in DOMAIN segs : segs[j].segLen > 0

\* C3: the samples ProcessBlock has returned never exceed
\* numSamplesSequence, whatever the host requests.
C3_NeverOversized ==
  (pc \in {"running", "hung"}) => emitted <= numSamplesSequence

\* C4: for N > 1, with duty cycle 100 every silence segment ProcessBlock
\* produces has length 0, and with duty cycle 0 every tone segment has
\* length 0.
C4_DutyCycleExtremes ==
  (Recalculated /\ WithinRun /\ Len(dtmfSequence) > 1) =>
    /\ dtmfDutyCycle = RInt(100) =>
         \A j \in SilenceSegs : segs[j].segLen = 0
    /\ dtmfDutyCycle = RInt(0) =>
         \A j \in ToneSegs : segs[j].segLen = 0

\* C5: for a one-symbol sequence Recalculate leaves silence 0 and the tone
\* as long as the duration; a full run has no silence segment and one tone
\* segment, made from the symbol, as long as numSamplesSequence (when
\* numSamplesSequence is 0 the tone is empty and no call starts it).
C5_SingleTone ==
  /\ (lastOp.op \in Recalculating /\ lastOp.ok /\ Len(dtmfSequence) = 1) =>
       /\ dtmfNTones = 1
       /\ dtmfSilence = RInt(0)
       /\ dtmfTone = mDuration
  /\ (Recalculated /\ FullRun /\ Len(dtmfSequence) = 1) =>
       /\ SilenceSegs = {}
       /\ Len(segs) <= 1
       /\ SumSegLen(segs) = numSamplesSequence
       /\ numSamplesSilence = 0
       /\ numSamplesSequence > 0 =>
            /\ Len(segs) = 1
            /\ segs[1].isTone
            /\ segs[1].pos = 0
            /\ segs[1].tone = dtmfSequence[1]
            /\ segs[1].segLen = numSamplesSequence
            /\ segs[1].done = numSamplesSequence

\* A full run of one tone, streamed in more than one block.
C5_Witness ==
  /\ Recalculated /\ FullRun
  /\ lastOp.op = "ProcessBlock"
  /\ Len(dtmfSequence) = 1
  /\ Len(segs) = 1
  /\ segs[1].segLen > MaxBlock
  /\ segs[1].extra = 1

\* C6: with an empty sequence Recalculate leaves duration, tone and silence
\* 0; ProcessInitialize then returns false, no sample is produced and the
\* cursor is as it was.
C6_EmptySequence ==
  /\ (lastOp.op \in Recalculating /\ lastOp.ok /\ Len(dtmfSequence) = 0) =>
       /\ dtmfNTones = 0
       /\ mDuration = RInt(0)
       /\ dtmfTone = RInt(0)
       /\ dtmfSilence = RInt(0)
  /\ (lastOp.op = "ProcessInitialize" /\ Recalculated
      /\ Len(dtmfSequence) = 0) =>
       /\ pc = "failed"
       /\ ~lastOp.ok
  /\ pc = "failed" =>
       /\ emitted = 0 /\ stream = << >> /\ segs = << >> /\ chunks = << >>
       /\ cursorVars = << 0, 0, 0, 0, 0, FALSE, 0, 0 >>

\* ProcessInitialize has returned false for an emptied sequence.
C6_Witness ==
  /\ pc = "failed"
  /\ Len(dtmfSequence) = 0
  /\ mDuration = RInt(0)
  /\ lastOp = Handler("ProcessInitialize", FALSE)

\* C7 as stated: "123" at duty cycle 50, 3 s and 8000 Hz gives
\* numSamplesSequence = 24000, three tones of 5333 or 5334 samples, two
\* silences of about 0.6667 s (5333 or 5334 samples), and the five lengths
\* sum to 24000.
C7_Original ==
  /\ pc = "running" => numSamplesSequence = 24000
  /\ FullRun =>
       /\ Cardinality(ToneSegs) = 3
       /\ Cardinality(SilenceSegs) = 2
       /\ \A j \in DOMAIN segs : segs[j].segLen \in {5333, 5334}
       /\ SumSegLen(segs) = 24000

\* C7 as amended: "123" at duty cycle 50, 3 s and 8000 Hz gives
\* numSamplesSequence = 24000, a slot of 3 / (3 + 0.5 - 1) = 1.2 s, three
\* tones of 0.6 s = 4800 samples and two silences of 0.6 s = 4800 samples,
\* with no residual sample, and the five lengths sum to 24000.
C7_Scenario ==
  /\ pc = "running" =>
       /\ numSamplesSequence = 24000
       /\ dtmfTone = Rat(6, 10) /\ dtmfSilence = Rat(6, 10)
       /\ numSamplesTone = 4800 /\ numSamplesSilence = 4800
  /\ FullRun =>
       /\ Len(segs) = 5
       /\ Cardinality(ToneSegs) = 3
       /\ Cardinality(SilenceSegs) = 2
       /\ \A j \in DOMAIN segs :
            /\ segs[j].segLen = 4800
            /\ segs[j].extra = 0
            /\ segs[j].done = 4800
       /\ \A j \in ToneSegs : segs[j].tone = dtmfSequence[segs[j].pos + 1]
       /\ SumSegLen(segs) = 24000

\* The scenario has been streamed to its last sample.
C7_Witness ==
  /\ FullRun
  /\ emitted = 24000
  /\ dtmfSequence = << "1", "2", "3" >>
  /\ Len(segs) = 5

\* Sample n of a tone lies in the fade-in window at the symbol's start.
InFadeIn(n, fs) == n * kFadeInOut < fs

\* Sample n of a tone of total samples lies in the fade-out window at the
\* symbol's end.
InFadeOut(n, total, fs) == (total - n) * kFadeInOut <= fs

\* C8: a tone of total samples synthesized by two calls, (len = k, last =
\* 0) and then (len = m, last = k), is sample for sample the tone one call
\* (len = k + m, last = 0) synthesizes, outside the fade windows at the
\* symbol's start and end; every sample's phase depends only on i + last.
C8_PhaseContinuity ==
  (bench.pc = "done" /\ bench.k + bench.m <= bench.total) =>
    /\ Len(bench.split) = bench.k + bench.m
    /\ Len(bench.single) = bench.k + bench.m
    /\ \A j \in 1..(bench.k + bench.m) :
         /\ bench.split[j].n = j - 1
         /\ bench.single[j].n = j - 1
         /\ (~InFadeIn(j - 1, bench.fs)
             /\ ~InFadeOut(j - 1, bench.total, bench.fs)) =>
              bench.split[j] = bench.single[j]

\* Both ways of synthesizing are done; the split falls inside the tone,
\* some samples lie outside the fade windows and the two buffers differ
\* inside a window.
C8_Witness ==
  /\ bench.pc = "done"
  /\ bench.k >= 1 /\ bench.m >= 1
  /\ bench.k + bench.m = bench.total
  /\ \E j \in (bench.k + 1)..(bench.k + bench.m) :
       /\ ~InFadeIn(j - 1, bench.fs)
       /\ ~InFadeOut(j - 1, bench.total, bench.fs)
  /\ \E j \in 1..(bench.k + bench.m) : bench.split[j] # bench.single[j]

\* Handlers after which the settings may have changed.
SettingsHandlers == Recalculating \cup {"VisitSettings"}

\* C9: after every handler that changes the sequence, the duty cycle or
\* the duration, a visitor writing through VisitSettings included,
\* dtmfNTones is the length of dtmfSequence and, for N >= 1,
\* N * dtmfTone + (N - 1) * dtmfSilence is the duration.
C9_DerivedConsistent ==
  (lastOp.op \in SettingsHandlers /\ lastOp.ok) =>
    /\ dtmfNTones = Len(dtmfSequence)
    /\ dtmfNTones >= 1 =>
         RAdd(RMul(RInt(dtmfNTones), dtmfTone),
              RMul(RInt(dtmfNTones - 1), dtmfSilence)) = mDuration

\* The alphabet of the claim: digits, *, #, A to D and a to z.
DtmfAlphabet ==
  {"0", "1", "2", "3", "4", "5", "6", "7", "8", "9", "*", "#",
   "A", "B", "C", "D",
   "a", "b", "c", "d", "e", "f", "g", "h", "i", "j", "k", "l", "m",
   "n", "o", "p", "q", "r", "s", "t", "u", "v", "w", "x", "y", "z"}

\* The command is one the claim has SetAutomationParameters reject.
Rejected(dutyCycle, amplitude, sequence) ==
  \/ RLess(dutyCycle, RInt(0)) \/ RLess(RInt(100), dutyCycle)
  \/ RLess(amplitude, Rat(1, 1000)) \/ RLess(RInt(1), amplitude)
  \/ \E i \in DOMAIN sequence : sequence[i] \notin DtmfAlphabet

\* C10: SetAutomationParameters returns false and leaves the sequence, the
\* duty cycle, the amplitude, the derived fields and the duration
\* unchanged when the duty cycle is outside [0, 100], the amplitude is
\* outside [0.001, 1] or the sequence has a symbol outside the alphabet;
\* otherwise it stores the three settings and recalculates.
C10_AllOrNothing ==
  [][\A cmd \in Commands :
       SetAutomationParameters(cmd[1], cmd[2], cmd[3]) =>
         IF Rejected(cmd[1], cmd[2], cmd[3])
           THEN /\ lastOp' = Handler("SetAutomationParameters", FALSE)
                /\ UNCHANGED settingsVars
           ELSE /\ lastOp' = Handler("SetAutomationParameters", TRUE)
                /\ dtmfDutyCycle' = cmd[1]
                /\ dtmfAmplitude' = cmd[2]
                /\ dtmfSequence' = cmd[3]
                /\ DerivedBy(dtmfSequence', dtmfDutyCycle', mDuration',
                             dtmfNTones', dtmfTone', dtmfSilence')]_vars

\* A command has been rejected after an earlier one was accepted.
C10_Witness ==
  /\ lastOp = Handler("SetAutomationParameters", FALSE)
  /\ pc = "idle"
  /\ Len(dtmfSequence) > 0

\* The telephone keypad: its keys by row and column, and the frequency of
\* each row and each column in Hz.
KeypadKeys ==
  << << "1", "2", "3", "A" >>,
     << "4", "5", "6", "B" >>,
     << "7", "8", "9", "C" >>,
     << "*", "0", "#", "D" >> >>
KeypadRowHz == << 697, 770, 852, 941 >>
KeypadColumnHz == << 1209, 1336, 1477, 1633 >>

\* The letters each digit key carries.
KeypadLetters ==
  [key \in {"2", "3", "4", "5", "6", "7", "8", "9"} |->
     CASE key = "2" -> {"a", "b", "c"}
       [] key = "3" -> {"d", "e", "f"}
       [] key = "4" -> {"g", "h", "i"}
       [] key = "5" -> {"j", "k", "l"}
       [] key = "6" -> {"m", "n", "o"}
       [] key = "7" -> {"p", "q", "r", "s"}
       [] key = "8" -> {"t", "u", "v"}
       [] key = "9" -> {"w", "x", "y", "z"}]

\* The key is the symbol itself or the digit key that carries the letter.
OnKey(symbol, key) ==
  \/ symbol = key
  \/ key \in DOMAIN KeypadLetters /\ symbol \in KeypadLetters[key]

\* The frequency pairs the keypad gives the symbol; none when no key has it.
KeypadPairs(symbol) ==
  { << KeypadRowHz[r], KeypadColumnHz[c] >> :
      << r, c >> \in { rc \in (1..4) \X (1..4) :
                        OnKey(symbol, KeypadKeys[rc[1]][rc[2]]) } }

\* C11: every sample MakeDtmfTone synthesizes for an allowed symbol is made
\* from the (low, high) pair of the symbol's keypad key, a lowercase letter
\* taking the pair of the digit key that carries it, so both frequencies
\* are nonzero; for a character outside the alphabet both are 0 (silence).
C11_KeypadFrequencies ==
  \A j \in DOMAIN bench.split :
    LET pair == << bench.split[j].f1, bench.split[j].f2 >> IN
    IF bench.tone \in DtmfAlphabet
      THEN /\ KeypadPairs(bench.tone) = {pair}
           /\ pair[1] # 0 /\ pair[2] # 0
      ELSE /\ pair = << 0, 0 >>
           /\ KeypadPairs(bench.tone) = {}

\* A tone has been synthesized for the letter s, which the key 7 carries.
C11_Witness ==
  /\ bench.pc = "done"
  /\ bench.tone = "s"
  /\ Len(bench.split) >= 2
  /\ bench.split[1].f1 = 852 /\ bench.split[1].f2 = 1209

\* The events of the run's record for track t in pass 1 (analyse) or pass 2.
PassEvents(t, analyse) ==
  LET OfPass(e) == e.t = t /\ e.analyse = analyse IN
  SelectSeq(loud.log, OfPass)

\* The blocks a pass loaded, in order, as << position, length >>.
LoadedBlocks(events) ==
  LET IsLoad(e) == e.op = "Load"
      loads == SelectSeq(events, IsLoad) IN
  [i \in DOMAIN loads |-> << loads[i].pos, loads[i].len >>]

\* The blocks are not empty, follow each other from position 0 and end at
\* size.
CoversSelection(blocks, size) ==
  /\ \A i \in DOMAIN blocks :
       /\ blocks[i][2] > 0
       /\ blocks[i][1] = (IF i = 1 THEN 0
                          ELSE blocks[i - 1][1] + blocks[i - 1][2])
  /\ size = (IF blocks = << >> THEN 0
             ELSE blocks[Len(blocks)][1] + blocks[Len(blocks)][2])

\* The tracks the run has reached.
TracksReached == IF loud.pc = "start" THEN {} ELSE 1..loud.t

\* C12: for each track, pass 2 begins only after pass 1 has loaded and
\* analysed every block of the selection; pass 1 stores nothing; pass 2
\* loads, processes and stores the selection in the block boundaries of
\* pass 1, each block loaded before it is processed and processed before
\* it is stored.
C12_TwoPassOrder ==
  \A t \in TracksReached :
    LET one == PassEvents(t, TRUE)
        two == PassEvents(t, FALSE)
        size == Len(loud.tracks[t])
        first == { i \in DOMAIN loud.log : loud.log[i].t = t
                                           /\ loud.log[i].analyse }
        second == { i \in DOMAIN loud.log : loud.log[i].t = t
                                            /\ ~loud.log[i].analyse }
    IN
    /\ \A i \in first, j \in second : i < j
    /\ \A i \in DOMAIN one :
         /\ one[i].op = (IF i % 2 = 1 THEN "Load" ELSE "Analyse")
         /\ i % 2 = 0 => << one[i].pos, one[i].len >> =
                         << one[i - 1].pos, one[i - 1].len >>
    /\ (two # << >> \/ (t = loud.t /\ ~loud.analyse)) =>
         /\ Len(one) % 2 = 0
         /\ CoversSelection(LoadedBlocks(one), size)
    /\ \A i \in DOMAIN two :
         /\ two[i].op = (CASE i % 3 = 1 -> "Load"
                           [] i % 3 = 2 -> "Process"
                           [] OTHER -> "Store")
         /\ i % 3 # 1 => << two[i].pos, two[i].len >> =
                         << two[i - 1].pos, two[i - 1].len >>
    /\ \A k \in DOMAIN LoadedBlocks(two) :
         /\ k <= Len(LoadedBlocks(one))
         /\ LoadedBlocks(two)[k] = LoadedBlocks(one)[k]
    /\ t \in loud.normalized =>
         /\ Len(two) % 3 = 0
         /\ LoadedBlocks(two) = LoadedBlocks(one)
         /\ size > 0

\* A run has normalized a track of several blocks, the last one shorter.
C12_Witness ==
  /\ loud.pc = "done"
  /\ loud.capacity = 2
  /\ 1 \in loud.normalized
  /\ LoadedBlocks(PassEvents(1, FALSE)) = << << 0, 2 >>, << 2, 1 >> >>

\* The samples of track t that a store of the run's record has written.
StoredSamples(t) ==
  UNION { (loud.log[i].pos + 1)..(loud.log[i].pos + loud.log[i].len) :
            i \in { j \in DOMAIN loud.log :
                      loud.log[j].t = t /\ loud.log[j].op = "Store" } }

\* Every sample a store has written carries the gain once, and no other
\* sample carries it.
BlocksStoredInFull ==
  \A t \in DOMAIN loud.tracks :
    \A i \in DOMAIN loud.tracks[t] :
      loud.tracks[t][i].gained = (IF i \in StoredSamples(t) THEN 1 ELSE 0)

\* C13: cancellation is observed only between blocks; then the run ends as
\* cancelled, which is not an error, the staging buffers are released,
\* every block already stored stays stored in full and no block is left
\* partially written.
C13_Cancellation ==
  /\ (loud.pc # "off" /\ loud.pc \in {"analyse", "process", "store", "load"})
       => loud.result = "none"
  /\ (loud.pc # "off" /\ loud.result = "cancelled") =>
       /\ loud.pc = "cancelled"
       /\ loud.cancel
       /\ ~loud.allocated /\ loud.buffer = << >>
       /\ loud.log # << >>
       /\ loud.log[Len(loud.log)].op \in {"Analyse", "Store"}
       /\ BlocksStoredInFull
  /\ (loud.pc # "off" /\ loud.pc # "start") => loud.result # "error"

\* The run was cancelled after it had stored one block of a longer track.
C13_Witness ==
  /\ loud.pc = "cancelled"
  /\ loud.result = "cancelled"
  /\ Len(loud.tracks[1]) = 3
  /\ StoredSamples(1) = {1}
  /\ loud.tracks[1][1].gained = 1
  /\ loud.tracks[1][2].gained = 0

\* Track t is silent: every sample has amplitude 0.
SilentTrack(t) == \A i \in DOMAIN loud.tracks[t] : loud.tracks[t][i].amp = 0

\* C14: a track whose measured level is silence is skipped and reported as
\* skipped, nothing is stored for it, and the run goes on with the
\* remaining tracks instead of failing.
C14_SilentTrackSkipped ==
  loud.pc # "off" =>
    /\ \A t \in loud.skipped :
         /\ SilentTrack(t)
         /\ t \notin loud.normalized
         /\ StoredSamples(t) = {}
         /\ PassEvents(t, FALSE) = << >>
         /\ \A i \in DOMAIN loud.tracks[t] : loud.tracks[t][i].gained = 0
    /\ \A t \in loud.normalized : ~SilentTrack(t)
    /\ \A t \in 1..(loud.t - 1) : t \in loud.skipped \cup loud.normalized
    /\ loud.result # "error"
    /\ loud.pc = "done" =>
         /\ loud.result = "ok"
         /\ \A t \in DOMAIN loud.tracks :
              IF SilentTrack(t) THEN t \in loud.skipped
                                ELSE t \in loud.normalized

\* A run has skipped a silent first track and normalized the second.
C14_Witness ==
  /\ loud.pc = "done"
  /\ Len(loud.tracks) = 2
  /\ Len(loud.tracks[1]) = 2 /\ SilentTrack(1)
  /\ loud.skipped = {1}
  /\ loud.normalized = {2}
  /\ StoredSamples(2) = 1..3

\* ProcessInitialize has just returned true: diff is what the
\* redistribution loop left.
LoopExited == lastOp = Handler("ProcessInitialize", TRUE) /\ pc = "running"

UnderEstimated ==
  calc.nTones * calc.tone0 + (calc.nTones - 1) * calc.silence0 <= calc.total

LoopLeft == calc.pc = "exit"

\* C16: for every count of tones N >= 1, every total T >= 0 and all nominal
\* lengths tone, silence >= 0 with N * tone + (N - 1) * silence <= T, the
\* difference is not negative when the loop is left, so that the assertion
\* diff >= 0 after the loop holds, also when the loop body has run.
C16_AssertionHolds ==
  (LoopLeft /\ UnderEstimated)
    => (calc.diff >= 0 /\ "diff >= 0" \notin calc.trap)

\* C17: with two tones or more the loop ends, whatever the total and the
\* nominal lengths: its body runs at most once, after one pass the loop
\* condition is false, and no pass traps.
C17_LoopTerminates ==
  (calc.pc # "off" /\ calc.nTones >= 2)
    => /\ calc.passes <= 1
       /\ calc.pc # "crashed"
       /\ calc.passes = 1 => calc.diff <= 2 * calc.nTones - 1

C17_Witness ==
  /\ LoopLeft
  /\ calc.nTones >= 2
  /\ calc.passes = 1


\* The difference with which ProcessInitialize would enter its loop now.
LoopEntryDiff ==
  Difference(Segmentation.total, dtmfNTones,
             UnderEstimate(dtmfTone, mSampleRate),
             UnderEstimate(dtmfSilence, mSampleRate))

\* C18: with one tone whose length Recalculate derived from the current
\* duration the loop is entered with diff <= 1 = 2N - 1, so its body does
\* not run: the assertion dtmfNTones > 1 is not reached, nothing is divided
\* by zero, and ProcessInitialize leaves the nominal lengths as estimated.
C18_BodyNotRunWithOneTone ==
  (dtmfNTones = 1 /\ Recalculated)
    => /\ LoopEntryDiff <= 1
       /\ Segmentation.loop.passes = 0
       /\ ~Segmentation.loop.divByZero
       /\ lastOp.op = "ProcessInitialize"
            => /\ pc # "crashed"
               /\ "dtmfNTones > 1" \notin trap
               /\ numSamplesTone = UnderEstimate(dtmfTone, mSampleRate)
               /\ diff = LoopEntryDiff

C18_Witness ==
  /\ LoopExited
  /\ dtmfNTones = 1
  /\ Recalculated
  /\ diff = 1


\* The residual ProcessInitialize left for ProcessBlock to hand out.
Diff0 ==
  Difference(numSamplesSequence, dtmfNTones, numSamplesTone,
             numSamplesSilence)

\* What segment j of the stream got beyond its nominal length.
ExtraOf(j) ==
  segs[j].segLen
    - (IF segs[j].isTone THEN numSamplesTone ELSE numSamplesSilence)

\* C19: every segment ProcessBlock has started is as long as its nominal
\* length (numSamplesTone for a tone, numSamplesSilence for a silence) or
\* one sample longer, and the segments one sample longer are exactly the
\* first min(diff0, segments started) of the stream, diff0 being the diff
\* ProcessInitialize left.
C19_ResidualDistribution ==
  pc \in {"running", "hung"}
    => \A j \in DOMAIN segs :
         /\ ExtraOf(j) \in {0, 1}
         /\ ExtraOf(j) = 1 <=> j <= Min(Diff0, Len(segs))

C19_Witness ==
  /\ pc = "running"
  /\ Diff0 >= 1
  /\ Len(segs) > Diff0
  /\ ExtraOf(Diff0) = 1
  /\ ExtraOf(Diff0 + 1) = 0


\* C20: of the chunks in which ProcessBlock streams one tone segment, the
\* first one (last = 0) and no other is faded in, and the one that reaches
\* the end of the segment and no other is faded out: a tone streamed to its
\* end has been faded in once and faded out once, and no chunk that ends
\* before the segment's last sample has been faded out.
C20_FadePlacement ==
  (Recalculated /\ WithinRun)
    => \A j \in ToneSegs :
         /\ segs[j].done > 0 => segs[j].fadeIns = 1
         /\ segs[j].earlyOuts = 0
         /\ (segs[j].segLen > 0 /\ segs[j].done = segs[j].segLen)
              => segs[j].fadeOuts = 1


\* The calls of MakeDtmfTone the bench has made: where each started, how
\* many samples it was asked for and the buffer it filled.
BenchCalls ==
  (IF bench.pc \in {"first", "second", "done"}
     THEN {[last |-> 0, len |-> bench.k,
            buf |-> SubSeq(bench.split, 1, bench.k)]}
     ELSE {})
  \cup
  (IF bench.pc \in {"second", "done"}
     THEN {[last |-> bench.k, len |-> bench.m,
            buf |-> SubSeq(bench.split, bench.k + 1, bench.k + bench.m)]}
     ELSE {})
  \cup
  (IF bench.pc = "done"
     THEN {[last |-> 0, len |-> bench.k + bench.m, buf |-> bench.single]}
     ELSE {})

\* The call writes both a fade-in and a fade-out into its buffer.
BothFades(call) ==
  /\ FadeInTouched(call.len, bench.fs, call.last) # {}
  /\ FadeOutTouched(call.len, bench.fs, call.last, bench.total) # {}

\* The symbol is no longer than one fade window: total <= fs / 250.
WithinOneWindow ==
  RLeq(RInt(bench.total), RDiv(RInt(bench.fs), RInt(kFadeInOut)))

\* C21 as stated: a call applies both the fade-in and the fade-out only
\* when total <= fs / 250.
C21_Original ==
  bench.pc # "off"
    => \A call \in BenchCalls : BothFades(call) => WithinOneWindow

\* C21: a call of MakeDtmfTone applies both the fade-in and the fade-out
\* only when it starts the symbol and reaches its end (last = 0 and
\* len >= total), whatever the length of the symbol; its first sample is
\* then silenced by the fade-in.
C21_BothFadesInOneCall ==
  bench.pc # "off"
    => \A call \in BenchCalls :
         BothFades(call)
           => /\ call.last = 0
              /\ call.len >= bench.total
              /\ call.len >= 1
              /\ call.buf[1].gain = RInt(0)

C21_Witness ==
  /\ bench.pc = "done"
  /\ ~WithinOneWindow
  /\ bench.k + bench.m = bench.total
  /\ BothFades([last |-> 0, len |-> bench.k + bench.m, buf |-> bench.single])
  /\ bench.single[1].gain = RInt(0)
  /\ RLess(bench.single[bench.total].gain, RInt(1))


\* x lies in [0, 1].
InUnit(x) == RLeq(RInt(0), x) /\ RLeq(x, RInt(1))

\* C22: in every call of MakeDtmfTone the fade-in and the fade-out loops
\* write only indices 0 .. len - 1 of the buffer, the window width
\* min(len, fs / 250) and the offset len - width are not negative, every
\* multiplier a loop applies lies in [0, 1], and the fade-in multiplies
\* the sample at index 0 by exactly 0.
C22_FadeWindowsBounded ==
  bench.pc # "off"
    => \A call \in BenchCalls :
         LET ins == FadeInTouched(call.len, bench.fs, call.last)
             outs == FadeOutTouched(call.len, bench.fs, call.last,
                                    bench.total)
         IN  /\ ins \subseteq 0..(call.len - 1)
             /\ outs \subseteq 0..(call.len - 1)
             /\ RLeq(RInt(0), FadeWidth(call.len, bench.fs))
             /\ RLeq(FadeWidth(call.len, bench.fs), RInt(call.len))
             /\ FadeOffset(call.len, bench.fs) >= 0
             /\ \A i \in ins :
                  InUnit(FadeInGain(i, call.len, bench.fs, call.last))
             /\ \A i \in outs :
                  InUnit(FadeOutGain(i, call.len, bench.fs, call.last,
                                     bench.total))
             /\ \A j \in DOMAIN call.buf : InUnit(call.buf[j].gain)
             /\ 0 \in ins
                  => /\ FadeInGain(0, call.len, bench.fs, call.last) = RInt(0)
                     /\ call.buf[1].gain = RInt(0)

C22_Witness ==
  /\ bench.pc = "done"
  /\ bench.fs = 1100
  /\ bench.k + bench.m = MaxToneLen
  /\ bench.total = MaxToneLen
  /\ FadeInTouched(MaxToneLen, bench.fs, 0) = 0..4
  /\ FadeOutTouched(MaxToneLen, bench.fs, 0, bench.total) = 1..5
  /\ bench.single[1].gain = RInt(0)


\* What the runs of a stream assign to each sample position: the kind of
\* segment, the index of the symbol and, for a tone, the phase (i + last).
RECURSIVE Positions(_)
Positions(runs) ==
  IF runs = << >> THEN << >>
  ELSE [i \in 1..runs[1].len |->
          [isTone |-> runs[1].isTone, pos |-> runs[1].pos,
           phase |-> IF runs[1].isTone THEN runs[1].phase + i - 1 ELSE 0]]
       \o Positions(Tail(runs))

\* The stream of one uninterrupted call ProcessBlock(size) made right after
\* the ProcessInitialize of this run.
OneCall(size) ==
  BlockLoop([isTone |-> FALSE, curSeqPos |-> -1, curTonePos |-> 0,
             numRemaining |-> 0, diff |-> Diff0, processed |-> 0,
             segs |-> << >>, stream |-> << >>, chunks |-> << >>,
             stray |-> FALSE, hung |-> FALSE],
            size, CHOOSE ch \in StrayChars : TRUE)

\* C23: however the samples returned so far were split into calls of
\* ProcessBlock, every sample position has the segment kind, the symbol
\* index and the phase that one single call for the same number of samples
\* gives it; two splittings of the same request therefore agree on every
\* position and differ only in the block boundaries.
C23_PartitionIndependent ==
  pc = "running"
    => /\ OneCall(emitted).processed = emitted
       /\ Positions(stream) = Positions(OneCall(emitted).stream)

C23_Witness ==
  /\ pc = "running"
  /\ lastOp.op = "ProcessBlock"
  /\ Len(stream) >= 2
  /\ \E r \in DOMAIN stream :
       /\ stream[r].isTone
       /\ stream[r].len > MaxBlock
  /\ Len(chunks) >= 2


\* What a call ProcessBlock(size) made now would leave.
CallNow(size, stray) == BlockLoop(Cursor, size, stray)

RECURSIVE SumLen(_)
SumLen(cs) == IF cs = << >> THEN 0 ELSE cs[1].len + SumLen(Tail(cs))

\* C24: a call ProcessBlock(size) that keeps the samples asked for so far
\* within numSamplesSequence ends and returns exactly size, also when
\* tones or silences are empty: the loop passes over empty segments and
\* stalls only once the whole sequence has been returned.
C24_ReturnsSize ==
  /\ pc = "running"
       => \A size \in 1..MaxBlock, stray \in StrayChars :
            emitted + size <= numSamplesSequence
              => /\ ~CallNow(size, stray).hung
                 /\ CallNow(size, stray).processed = size
  /\ (pc = "running" /\ lastOp.op = "ProcessBlock")
       => SumLen(chunks) \in 1..MaxBlock
  /\ pc = "hung" => emitted >= numSamplesSequence

C24_Witness ==
  /\ pc = "running"
  /\ lastOp.op = "ProcessBlock"
  /\ emitted <= numSamplesSequence
  /\ SumLen(chunks) = MaxBlock
  /\ \E j \in DOMAIN chunks : chunks[j].len = 0

=============================================================================
